---- MODULE Spec2Model ----
(***************************************************************************)
(* Model of lib/audit.js: the `npm audit [fix]` command (auditCmd), its    *)
(* classification of the report's remediation actions, and the Auditor     *)
(* installer's loadShrinkwrap override that patches the lockfile tree.     *)
(*                                                                         *)
(* JavaScript strings are sequences of one-character strings, so that      *)
(* split, join, indexOf, slice and template concatenation are computed.    *)
(* A JavaScript Set is a duplicate-free sequence in insertion order.       *)
(***************************************************************************)
EXTENDS Integers, Sequences, FiniteSets, TLC

VARIABLES
    \* ---- auditCmd ----
    global,        \* npm.config.get('global')
    args,          \* the command's args array
    files,         \* what reading each of the three files yields
    pc,            \* position of the auditCmd promise chain
    err,           \* code of the error the run ended with, or "none"
    readErr,       \* the rejection of BB.all, when a file read failed
    verify,        \* lockVerify: "notrun", "ok" or "mismatch"
    generated,     \* audit.generate was called
    submitted,     \* audit.submitForFullReport was called
    auditResult,   \* the report: [actions, metadata]
    actions,       \* the classified plan (const actions, line 147)
    auditorCalls,  \* every new Auditor(...).run: [args, deepArgs]
    exitCode,      \* process.exitCode
    printed,       \* audit.printFullReport was called
    \* ---- Auditor.loadShrinkwrap ----
    lpc,           \* position of loadShrinkwrap
    idealTree,     \* this.idealTree
    hasShrinkwrap, \* this.idealTree.package._shrinkwrap is truthy
    deepArgs,      \* this._deepArgs
    k,             \* number of deep args the forEach has visited
    prevTree,      \* idealTree before the deep arg visited last
    tree0,         \* idealTree as readShrinkwrap left it
    inflated,      \* inflateShrinkwrap was called
    lerr           \* the error loadShrinkwrap passed to cb, or "none"

cmdVars == <<global, args, files, pc, err, readErr, verify, generated, submitted,
             auditResult, actions, auditorCalls, exitCode, printed>>

loadVars == <<lpc, idealTree, hasShrinkwrap, deepArgs, k, prevTree, tree0,
              inflated, lerr>>

vars == <<cmdVars, loadVars>>

----------------------------------------------------------------------------
(* Bounds of the model.                                                    *)

MaxActions == 2

MaxResolves == 1

MaxDeepArgs == 2

MaxDeepLen == 3

----------------------------------------------------------------------------
(* Strings and arrays.                                                     *)

Range(s) == {s[i] : i \in 1..Len(s)}

Min(a, b) == IF a < b THEN a ELSE b

Max(a, b) == IF a > b THEN a ELSE b

\* Array.prototype.indexOf / String.prototype.indexOf of one character:
\* the 0-based index of the first occurrence, -1 when there is none.
IndexOf(s, x) ==
    IF \E i \in 1..Len(s) : s[i] = x
    THEN (CHOOSE i \in 1..Len(s) : s[i] = x /\ \A j \in 1..(i-1) : s[j] # x) - 1
    ELSE -1

\* s.slice(0, end): a negative end counts from the end of s.
SliceTo(s, end) ==
    LET e == IF end < 0 THEN Max(Len(s) + end, 0) ELSE Min(end, Len(s))
    IN  SubSeq(s, 1, e)

\* s.slice(start) for start >= 0.
SliceFrom(s, start) == SubSeq(s, start + 1, Len(s))

RECURSIVE Split(_, _)
\* str.split(sep) for a one-character separator.
Split(str, sep) ==
    LET i == IndexOf(str, sep)
    IN  IF i = -1 THEN <<str>>
        ELSE <<SliceTo(str, i)>> \o Split(SliceFrom(str, i + 1), sep)

RECURSIVE Join(_, _)
\* parts.join(sep)
Join(parts, sep) ==
    IF parts = <<>> THEN <<>>
    ELSE IF Len(parts) = 1 THEN parts[1]
    ELSE parts[1] \o <<sep>> \o Join(Tail(parts), sep)

\* The template `${name}@${version}`.
NameAtVersion(name, version) == name \o <<"@">> \o version

\* Set.prototype.add on an insertion-ordered set.
SetAdd(set, x) == IF x \in Range(set) THEN set ELSE Append(set, x)

----------------------------------------------------------------------------
(* The report's remediation actions (inputs).                              *)

A == <<"a">>

B == <<"b">>

V2 == <<"2">>

Latest == <<"l", "a", "t", "e", "s", "t">>

Lodash == <<"l", "o", "d", "a", "s", "h">>

LodashTarget == <<"4", ".", "1", "7", ".", "2", "1">>

AppLodashPath == <<"a", "p", "p", ">">> \o Lodash

\* "c>a>b>a": a occurs twice, with names before and after it.
PathCABA == <<"c", ">", "a", ">", "b", ">", "a">>

\* "c>a": b does not occur.
PathCA == <<"c", ">", "a">>

\* "a": a dependency of the root.
PathA == <<"a">>

\* "a>b>c>d"
PathABCD == <<"a", ">", "b", ">", "c", ">", "d">>

Modules == {A, B}

VulnPaths == {PathCABA, PathCA, PathA}

SeqsUpTo(S, n) == UNION {[1..m -> S] : m \in 0..n}

Resolves == SeqsUpTo({[path |-> p] : p \in VulnPaths}, MaxResolves)

\* Only the update branch of a non-major action reads resolves: the other
\* actions carry none, or one vulnerability when their kind is update.
ActionUniverse ==
    {[module |-> m, target |-> V2, action |-> "update", isMajor |-> FALSE, resolves |-> r] :
        m \in Modules, r \in Resolves}
    \cup
    {[module |-> m, target |-> V2, action |-> "update", isMajor |-> TRUE, resolves |-> r] :
        m \in Modules, r \in {<<>>, << [path |-> PathCA] >>}}
    \cup
    {[module |-> m, target |-> V2, action |-> a, isMajor |-> j, resolves |-> <<>>] :
        m \in Modules, a \in {"install", "review"}, j \in BOOLEAN}

LodashActions ==
    << [module |-> Lodash, target |-> LodashTarget, action |-> "update",
        isMajor |-> FALSE, resolves |-> << [path |-> AppLodashPath] >>] >>

ExampleActions ==
    << [module |-> <<"c">>, target |-> <<"2", ".", "0", ".", "0">>, action |-> "update",
        isMajor |-> FALSE, resolves |-> << [path |-> PathABCD] >>] >>

ActionLists == SeqsUpTo(ActionUniverse, MaxActions) \cup {LodashActions, ExampleActions}

NoVulns == [low |-> 0, moderate |-> 0, high |-> 0, critical |-> 0]

OneModerate == [low |-> 0, moderate |-> 1, high |-> 0, critical |-> 0]

----------------------------------------------------------------------------
(* The classifier: the reduce over auditResult.actions.                    *)

EmptyPlan == [install |-> <<>>, update |-> <<>>, major |-> <<>>, review |-> <<>>]

\* The 0-based index of the last occurrence, -1 when there is none.
LastIndexOf(s, x) ==
    IF \E i \in 1..Len(s) : s[i] = x
    THEN (CHOOSE i \in 1..Len(s) : s[i] = x /\ \A j \in (i+1)..Len(s) : s[j] # x) - 1
    ELSE -1

\* Mutation: the chain is cut at the last occurrence of the module.
UpdateEntryLastIndex(name, version, path) ==
    LET modPath == Split(path, ">")
    IN  Join(Append(SliceTo(modPath, LastIndexOf(modPath, name)),
                    NameAtVersion(name, version)), ">")

\* The string one vulnerability adds to acc.update.
UpdateEntry(name, version, path) ==
    LET modPath == Split(path, ">")
    IN  Join(Append(SliceTo(modPath, IndexOf(modPath, name)),
                    NameAtVersion(name, version)), ">")

RECURSIVE AddResolves(_, _, _, _)
\* action.resolves.forEach(vuln => acc.update.add(...))
AddResolves(update, name, version, resolves) ==
    IF resolves = <<>> THEN update
    ELSE AddResolves(SetAdd(update, UpdateEntry(name, version, Head(resolves).path)),
                     name, version, Tail(resolves))

\* Mutation: the action kind is tested before isMajor.
ClassifyActionKindFirst(acc, action, idx) ==
    IF action.action = "install"
    THEN [acc EXCEPT !.install = SetAdd(@, NameAtVersion(action.module, action.target))]
    ELSE IF action.isMajor
    THEN [acc EXCEPT !.major = SetAdd(@, NameAtVersion(action.module, action.target))]
    ELSE IF action.action = "update"
    THEN [acc EXCEPT !.update = AddResolves(@, action.module, action.target, action.resolves)]
    ELSE IF action.action = "review"
    THEN [acc EXCEPT !.review = SetAdd(@, idx)]
    ELSE acc

\* Mutation: a major action also falls through to the branch of its kind.
ClassifyActionFallThrough(acc, action, idx) ==
    LET acc1 == IF action.isMajor
                THEN [acc EXCEPT !.major = SetAdd(@, NameAtVersion(action.module, action.target))]
                ELSE acc
    IN  IF action.action = "install"
        THEN [acc1 EXCEPT !.install = SetAdd(@, NameAtVersion(action.module, action.target))]
        ELSE IF action.action = "update"
        THEN [acc1 EXCEPT !.update = AddResolves(@, action.module, action.target, action.resolves)]
        ELSE IF action.action = "review"
        THEN [acc1 EXCEPT !.review = SetAdd(@, idx)]
        ELSE acc1

\* The reducer's body for the action at position idx. review holds the raw
\* action objects, which a Set keeps apart by identity: here, by position.
ClassifyAction(acc, action, idx) ==
    IF action.isMajor
    THEN [acc EXCEPT !.major = SetAdd(@, NameAtVersion(action.module, action.target))]
    ELSE IF action.action = "install"
    THEN [acc EXCEPT !.install = SetAdd(@, NameAtVersion(action.module, action.target))]
    ELSE IF action.action = "update"
    THEN [acc EXCEPT !.update = AddResolves(@, action.module, action.target, action.resolves)]
    ELSE IF action.action = "review"
    THEN [acc EXCEPT !.review = SetAdd(@, idx)]
    ELSE acc

RECURSIVE ClassifyFrom(_, _, _)
ClassifyFrom(acc, list, idx) ==
    IF idx > Len(list) THEN acc
    ELSE ClassifyFrom(ClassifyAction(acc, list[idx], idx), list, idx + 1)

\* (auditResult.actions || []).reduce(..., {install, update, major, review})
Classify(list) == ClassifyFrom(EmptyPlan, list, 1)

\* Mutation: the update paths are passed as install arguments too.
AuditorArgsWithUpdates(plan) == plan.install \o plan.update

\* [...actions.install]
AuditorArgs(plan) == plan.install

\* Mutation: the update paths are not split.
AuditorDeepArgsUnsplit(plan) == [i \in 1..Len(plan.update) |-> <<plan.update[i]>>]

\* [...actions.update].map(u => u.split('>'))
AuditorDeepArgs(plan) == [i \in 1..Len(plan.update) |-> Split(plan.update[i], ">")]

----------------------------------------------------------------------------
(* auditCmd.                                                               *)

FileStates == {"ok", "ENOENT", "EJSONPARSE", "EACCES"}

FileNames == {"shrinkwrap", "lockfile", "pkgJson"}

\* maybeReadFile: the parsed data, null when the file is absent (ENOENT),
\* a rejection for a parse error or any other read error.
MaybeReadFile(state) ==
    IF state = "ok" THEN [rejected |-> FALSE, value |-> "data", code |-> "none"]
    ELSE IF state = "ENOENT" THEN [rejected |-> FALSE, value |-> "null", code |-> "none"]
    ELSE [rejected |-> TRUE, value |-> "null", code |-> state]

\* Mutation: the lockfile check is missing.
SpreadCheckNoLock(shrinkwrap, lockfile, pkgJson) ==
    IF pkgJson = "null" THEN "EAUDITNOPJSON" ELSE "none"

\* The checks of the spread callback: the code of the error it throws.
SpreadCheck(shrinkwrap, lockfile, pkgJson) ==
    LET sw == IF shrinkwrap # "null" THEN shrinkwrap ELSE lockfile
    IN  IF pkgJson = "null" THEN "EAUDITNOPJSON"
        ELSE IF sw = "null" THEN "EAUDITNOLOCK"
        ELSE "none"

\* The status codes a failed request to the registry may carry (0: none).
StatusCodes == {0, 400, 404, 500, 503}

\* The .catch after submitForFullReport: the code of the error it rethrows.
RegistryError(statusCode) ==
    IF statusCode = 404 \/ statusCode >= 500 THEN "ENOAUDIT" ELSE "EREQUEST"

IsFix == args # <<>> /\ args[1] = "fix"

IdleTree == [name |-> <<>>, version |-> <<>>, has |-> {}, requires |-> <<>>]

LoadIdle ==
    /\ lpc = "idle"
    /\ idealTree = IdleTree
    /\ hasShrinkwrap = FALSE
    /\ deepArgs = <<>>
    /\ k = 0
    /\ prevTree = IdleTree
    /\ tree0 = IdleTree
    /\ inflated = FALSE
    /\ lerr = "none"

InitCmd ==
    /\ global \in BOOLEAN
    /\ args \in {<<>>, <<"fix">>, <<"bogus">>}
    /\ files \in [FileNames -> FileStates]
    /\ pc = "start"
    /\ err = "none"
    /\ readErr = "none"
    /\ verify = "notrun"
    /\ generated = FALSE
    /\ submitted = FALSE
    /\ auditResult = [actions |-> <<>>, metadata |-> NoVulns]
    /\ actions = EmptyPlan
    /\ auditorCalls = <<>>
    /\ exitCode = 0
    /\ printed = FALSE
    /\ LoadIdle

Fail(code) ==
    /\ pc' = "failed"
    /\ err' = code

\* Lines 95-106: the global check, the subcommand check, the three reads.
AuditCmdEntry ==
    /\ pc = "start"
    /\ IF global THEN Fail("EAUDITGLOBAL")
       ELSE IF args # <<>> /\ args[1] # "fix" THEN Fail("EINVALIDSUBCOMMAND")
       ELSE pc' = "reading" /\ err' = err
    /\ UNCHANGED <<global, args, files, readErr, verify, generated, submitted,
                   auditResult, actions, auditorCalls, exitCode, printed>>
    /\ UNCHANGED loadVars

\* BB.all rejects with the rejection of one of the reads.
ReadFailed ==
    /\ pc = "reading"
    /\ \E f \in FileNames :
          /\ MaybeReadFile(files[f]).rejected
          /\ readErr' = MaybeReadFile(files[f]).code
          /\ Fail(MaybeReadFile(files[f]).code)
    /\ UNCHANGED <<global, args, files, verify, generated, submitted,
                   auditResult, actions, auditorCalls, exitCode, printed>>
    /\ UNCHANGED loadVars

\* Lines 107-126: the spread callback, up to the call of lockVerify.
ReadDone ==
    /\ pc = "reading"
    /\ \A f \in FileNames : ~MaybeReadFile(files[f]).rejected
    /\ LET code == SpreadCheck(MaybeReadFile(files["shrinkwrap"]).value,
                               MaybeReadFile(files["lockfile"]).value,
                               MaybeReadFile(files["pkgJson"]).value)
       IN  IF code # "none" THEN Fail(code)
           ELSE pc' = "verifying" /\ err' = err
    /\ UNCHANGED <<global, args, files, readErr, verify, generated, submitted,
                   auditResult, actions, auditorCalls, exitCode, printed>>
    /\ UNCHANGED loadVars

\* Lines 126-134: lockVerify's result.
LockVerifyDone ==
    /\ pc = "verifying"
    /\ \E status \in BOOLEAN :
          IF status
          THEN /\ verify' = "ok"
               /\ generated' = TRUE
               /\ pc' = "generating"
               /\ err' = err
          ELSE /\ verify' = "mismatch"
               /\ generated' = generated
               /\ Fail("ELOCKVERIFY")
    /\ UNCHANGED <<global, args, files, readErr, submitted,
                   auditResult, actions, auditorCalls, exitCode, printed>>
    /\ UNCHANGED loadVars

\* Lines 135-136: the report is submitted.
GenerateDone ==
    /\ pc = "generating"
    /\ submitted' = TRUE
    /\ pc' = "submitting"
    /\ UNCHANGED <<global, args, files, err, readErr, verify, generated,
                   auditResult, actions, auditorCalls, exitCode, printed>>
    /\ UNCHANGED loadVars

\* Lines 137-144: the request failed.
SubmitRejected ==
    /\ pc = "submitting"
    /\ \E statusCode \in StatusCodes : Fail(RegistryError(statusCode))
    /\ UNCHANGED <<global, args, files, readErr, verify, generated, submitted,
                   auditResult, actions, auditorCalls, exitCode, printed>>
    /\ UNCHANGED loadVars

\* The registry answers. Fix mode reads only actions, report mode only
\* metadata: the part the mode does not read is left at its default.
SubmitResolved ==
    /\ pc = "submitting"
    /\ \E list \in (IF IsFix THEN ActionLists ELSE {<<>>}),
          meta \in (IF IsFix THEN {NoVulns} ELSE {NoVulns, OneModerate}) :
          auditResult' = [actions |-> list, metadata |-> meta]
    /\ pc' = "result"
    /\ UNCHANGED <<global, args, files, err, readErr, verify, generated, submitted,
                   actions, auditorCalls, exitCode, printed>>
    /\ UNCHANGED loadVars

\* Lines 146-202: classification, then the Auditor when there is work.
FixMode ==
    /\ pc = "result"
    /\ IsFix
    /\ actions' = Classify(auditResult.actions)
    /\ IF Len(actions'.update) > 0 \/ Len(actions'.install) > 0
       THEN /\ auditorCalls' = Append(auditorCalls,
                                  [args |-> AuditorArgs(actions'),
                                   deepArgs |-> AuditorDeepArgs(actions')])
            /\ pc' = "installing"
       ELSE /\ auditorCalls' = auditorCalls
            /\ pc' = "done"
    /\ UNCHANGED <<global, args, files, err, readErr, verify, generated, submitted,
                   auditResult, exitCode, printed>>
    /\ UNCHANGED loadVars

\* Lines 203-211: the report is printed, the exit code set.
ReportMode ==
    /\ pc = "result"
    /\ ~IsFix
    /\ LET vulns == auditResult.metadata.low + auditResult.metadata.moderate +
                    auditResult.metadata.high + auditResult.metadata.critical
       IN  exitCode' = IF vulns > 0 THEN 1 ELSE exitCode
    /\ printed' = TRUE
    /\ pc' = "done"
    /\ UNCHANGED <<global, args, files, err, readErr, verify, generated, submitted,
                   auditResult, actions, auditorCalls>>
    /\ UNCHANGED loadVars

\* Lines 193-200: the Auditor's run calls back.
InstallDone ==
    /\ pc = "installing"
    /\ \E ok \in BOOLEAN :
          IF ok THEN pc' = "done" /\ err' = err ELSE Fail("EINSTALL")
    /\ UNCHANGED <<global, args, files, readErr, verify, generated, submitted,
                   auditResult, actions, auditorCalls, exitCode, printed>>
    /\ UNCHANGED loadVars

NextCmd ==
    \/ AuditCmdEntry
    \/ ReadFailed
    \/ ReadDone
    \/ LockVerifyDone
    \/ GenerateDone
    \/ SubmitRejected
    \/ SubmitResolved
    \/ FixMode
    \/ ReportMode
    \/ InstallDone

SpecCmd == InitCmd /\ [][NextCmd]_vars

----------------------------------------------------------------------------
(* The lockfile tree and the deep paths (inputs of loadShrinkwrap).        *)

V1 == <<"1">>

AllFields == {"from", "resolved", "integrity", "requires"}

\* A node of the tree: has is the set of the optional fields it carries;
\* requires is <<>> when the field is absent.
Node(name, children) ==
    [name |-> name, version |-> V1, has |-> AllFields, requires |-> children]

Leaf(name) == Node(name, <<>>)

RootName == <<"r", "o", "o", "t">>

\* root -> a -> (a, b -> a), root -> b -> b
TreeRich ==
    Node(RootName,
         << Node(A, << Leaf(A), Node(B, << Leaf(A) >>) >>),
            Node(B, << Leaf(B) >>) >>)

\* root -> b -> a: the root has no child a.
TreeSparse == Node(RootName, << Node(B, << Leaf(A) >>) >>)

\* root -> a, b -> a: this a came without from and requires fields.
TreeBare ==
    Node(RootName,
         << [name |-> A, version |-> V1, has |-> {"resolved", "integrity"}, requires |-> <<>>],
            Node(B, << Leaf(A) >>) >>)

Trees == {TreeRich, TreeSparse, TreeBare}

PathNameSet == {A, B}

Specifiers == {NameAtVersion(n, V2) : n \in PathNameSet}

\* A deep path: names, then the specifier of the node to patch.
DeepPaths ==
    UNION {{p \in [1..n -> PathNameSet \cup Specifiers] :
               /\ p[n] \in Specifiers
               /\ \A i \in 1..(n-1) : p[i] \in PathNameSet} : n \in 1..MaxDeepLen}

\* The update set holds each path once.
DeepArgLists ==
    {l \in SeqsUpTo(DeepPaths, MaxDeepArgs) :
        \A i, j \in 1..Len(l) : i # j => l[i] # l[j]}

\* npa(arg) for a registry specifier: the name up to the first "@" that is
\* not the scope's, and the rest as fetchSpec, "latest" when there is none.
Npa(arg) ==
    LET nameEndsAt == IF Len(arg) > 0 /\ arg[1] = "@"
                      THEN IndexOf(SliceFrom(arg, 1), "@") + 1
                      ELSE IndexOf(arg, "@")
        rawSpec == IF nameEndsAt > 0 THEN SliceFrom(arg, nameEndsAt + 1) ELSE <<>>
    IN  [name |-> IF nameEndsAt > 0 THEN SliceTo(arg, nameEndsAt) ELSE arg,
         fetchSpec |-> IF rawSpec = <<>> THEN Latest ELSE rawSpec]

RECURSIVE NodeAt(_, _)
\* The node reached from t by the child indices of pos.
NodeAt(t, pos) ==
    IF pos = <<>> THEN t ELSE NodeAt(t.requires[Head(pos)], Tail(pos))

RECURSIVE SetAt(_, _, _)
\* The tree after the in-place mutation of the node at pos into n.
SetAt(t, pos, n) ==
    IF pos = <<>> THEN n
    ELSE [t EXCEPT !.requires[Head(pos)] = SetAt(@, Tail(pos), n)]

\* Mutation: the first child stands in for a child that is not found.
FindOrFirst(requires, name) ==
    IF \E i \in 1..Len(requires) : requires[i].name = name
    THEN CHOOSE i \in 1..Len(requires) :
            requires[i].name = name /\ \A j \in 1..(i-1) : requires[j].name # name
    ELSE IF Len(requires) > 0 THEN 1 ELSE 0

\* requires.find(n => n.name === name): the index of the first match, 0 for
\* undefined.
Find(requires, name) ==
    IF \E i \in 1..Len(requires) : requires[i].name = name
    THEN CHOOSE i \in 1..Len(requires) :
            requires[i].name = name /\ \A j \in 1..(i-1) : requires[j].name # name
    ELSE 0

\* Lines 54-58: the target after the patch.
PatchTarget(target, spec) ==
    [target EXCEPT !.version = spec.fetchSpec,
                   !.has = @ \ {"from", "resolved", "requires", "integrity"},
                   !.requires = <<>>]

\* Mutation: the segment patched is the one at the path's place in deepArgs.
IsPatchSegmentByPlace(dargs, arg, i) ==
    \E j \in 1..Len(dargs) : dargs[j] = arg /\ i = j - 1

\* Line 51: i === this._deepArgs.length - 1
IsPatchSegment(dargs, arg, i) == i = Len(dargs) - 1

Thrown(st) == [st EXCEPT !.thrown = TRUE]

\* Lines 50-60: one call of the reducer. st.def and st.pos are acc (the
\* node at pos, or undefined); reading a property of undefined throws.
ReduceStep(st, dargs, arg, i) ==
    LET child == arg[i + 1]
        acc == NodeAt(st.tree, st.pos)
        noRequires == ~st.def \/ "requires" \notin acc.has
    IN  IF st.thrown THEN st
        ELSE IF IsPatchSegment(dargs, arg, i)
        THEN LET spec == Npa(child)
             IN  IF noRequires THEN Thrown(st)
                 ELSE LET t == Find(acc.requires, spec.name)
                          r == Find(acc.requires, child)
                      IN  IF t = 0 THEN Thrown(st)
                          ELSE [tree |-> SetAt(st.tree, Append(st.pos, t),
                                               PatchTarget(acc.requires[t], spec)),
                                def |-> r # 0,
                                pos |-> IF r # 0 THEN Append(st.pos, r) ELSE <<>>,
                                thrown |-> FALSE]
        ELSE IF noRequires THEN Thrown(st)
        ELSE LET r == Find(acc.requires, child)
             IN  [st EXCEPT !.def = r # 0,
                            !.pos = IF r # 0 THEN Append(st.pos, r) ELSE <<>>]

RECURSIVE ReduceFrom(_, _, _, _)
ReduceFrom(st, dargs, arg, i) ==
    IF i >= Len(arg) THEN st
    ELSE ReduceFrom(ReduceStep(st, dargs, arg, i), dargs, arg, i + 1)

\* arg.reduce(..., this.idealTree)
ApplyArg(tree, dargs, arg) ==
    ReduceFrom([tree |-> tree, def |-> TRUE, pos |-> <<>>, thrown |-> FALSE],
               dargs, arg, 0)

RECURSIVE ApplyFrom(_, _, _)
ApplyFrom(res, dargs, j) ==
    IF j > Len(dargs) \/ res.thrown THEN res
    ELSE LET st == ApplyArg(res.tree, dargs, dargs[j])
         IN  ApplyFrom([tree |-> st.tree, thrown |-> st.thrown], dargs, j + 1)

\* this._deepArgs.forEach(...): the tree it leaves and whether it threw.
ApplyAll(tree, dargs) == ApplyFrom([tree |-> tree, thrown |-> FALSE], dargs, 1)

----------------------------------------------------------------------------
(* Auditor.loadShrinkwrap.                                                 *)

CmdIdle ==
    /\ global = FALSE
    /\ args = <<>>
    /\ files = [f \in FileNames |-> "ok"]
    /\ pc = "idle"
    /\ err = "none"
    /\ readErr = "none"
    /\ verify = "notrun"
    /\ generated = FALSE
    /\ submitted = FALSE
    /\ auditResult = [actions |-> <<>>, metadata |-> NoVulns]
    /\ actions = EmptyPlan
    /\ auditorCalls = <<>>
    /\ exitCode = 0
    /\ printed = FALSE

\* The Auditor as constructed: its tree and the deepArgs option.
InitLoad ==
    /\ CmdIdle
    /\ lpc = "start"
    /\ idealTree \in Trees
    /\ hasShrinkwrap = FALSE
    /\ deepArgs \in DeepArgLists
    /\ k = 0
    /\ prevTree = idealTree
    /\ tree0 = idealTree
    /\ inflated = FALSE
    /\ lerr = "none"

\* Lines 43-46: readShrinkwrap is called.
LoadShrinkwrap ==
    /\ lpc = "start"
    /\ lpc' = "reading"
    /\ UNCHANGED <<idealTree, hasShrinkwrap, deepArgs, k, prevTree, tree0, inflated, lerr>>
    /\ UNCHANGED cmdVars

\* readShrinkwrap fails, or leaves the lockfile's data on the tree or none.
\* Line 48: without data the callback does nothing.
ReadShrinkwrapDone ==
    /\ lpc = "reading"
    /\ \E outcome \in {"data", "nodata", "error"} :
          /\ hasShrinkwrap' = (outcome = "data")
          /\ lpc' = CASE outcome = "data" -> "patching"
                      [] outcome = "nodata" -> "done"
                      [] OTHER -> "failed"
          /\ lerr' = IF outcome = "error" THEN "EREADSHRINKWRAP" ELSE lerr
    /\ UNCHANGED <<idealTree, deepArgs, k, prevTree, tree0, inflated>>
    /\ UNCHANGED cmdVars

\* Lines 49-62: forEach visits the next deep arg.
PatchNext ==
    /\ lpc = "patching"
    /\ k < Len(deepArgs)
    /\ LET st == ApplyArg(idealTree, deepArgs, deepArgs[k + 1])
       IN  /\ idealTree' = st.tree
           /\ lpc' = IF st.thrown THEN "failed" ELSE "patching"
           /\ lerr' = IF st.thrown THEN "TypeError" ELSE lerr
    /\ prevTree' = idealTree
    /\ k' = k + 1
    /\ UNCHANGED <<hasShrinkwrap, deepArgs, tree0, inflated>>
    /\ UNCHANGED cmdVars

\* Lines 63-66: inflateShrinkwrap is called.
CallInflate ==
    /\ lpc = "patching"
    /\ k = Len(deepArgs)
    /\ inflated' = TRUE
    /\ lpc' = "inflating"
    /\ UNCHANGED <<idealTree, hasShrinkwrap, deepArgs, k, prevTree, tree0, lerr>>
    /\ UNCHANGED cmdVars

\* Line 68: inflateShrinkwrap's outcome is passed to cb.
InflateDone ==
    /\ lpc = "inflating"
    /\ \E ok \in BOOLEAN :
          /\ lpc' = IF ok THEN "done" ELSE "failed"
          /\ lerr' = IF ok THEN lerr ELSE "EINFLATE"
    /\ UNCHANGED <<idealTree, hasShrinkwrap, deepArgs, k, prevTree, tree0, inflated>>
    /\ UNCHANGED cmdVars

NextLoad ==
    \/ LoadShrinkwrap
    \/ ReadShrinkwrapDone
    \/ PatchNext
    \/ CallInflate
    \/ InflateDone

SpecLoad == InitLoad /\ [][NextLoad]_vars

----------------------------------------------------------------------------
(* Properties of loadShrinkwrap.                                           *)

\* The names of a deep path: its segments, the last without its version.
PathNames(arg) == [i \in 1..Len(arg) |-> Npa(arg[i]).name]

\* node has a requires field holding a child called name.
HasChild(node, name) ==
    "requires" \in node.has /\ \E i \in 1..Len(node.requires) : node.requires[i].name = name

ChildCalled(node, name) ==
    node.requires[CHOOSE i \in 1..Len(node.requires) : node.requires[i].name = name]

RECURSIVE Descends(_, _)
\* Every name of names is found in turn, starting at node.
Descends(node, names) ==
    names = <<>> \/ (/\ HasChild(node, Head(names))
                     /\ Descends(ChildCalled(node, Head(names)), Tail(names)))

RECURSIVE Descend(_, _)
\* The node the descent ends at (where Descends holds).
Descend(node, names) ==
    IF names = <<>> THEN node ELSE Descend(ChildCalled(node, Head(names)), Tail(names))

\* The node carries the specifier's version and none of the four fields.
IsPatched(node, arg) ==
    /\ node.version = Npa(arg[Len(arg)]).fetchSpec
    /\ node.has \cap {"resolved", "integrity", "requires", "from"} = {}

\* The forEach is over: it threw, or it visited every deep arg.
PatchingOver == hasShrinkwrap /\ (lerr = "TypeError" \/ k = Len(deepArgs))

\* C1: with lockfile data present, every deep path that leads to a node of
\* the tree is applied: the visit of the path does not fail, and the node its
\* names lead to has the specifier's version and no resolved, integrity,
\* requires or from field.
C1_EveryDeepPathApplied ==
    (hasShrinkwrap /\ k >= 1 /\ Descends(prevTree, PathNames(deepArgs[k])))
        => /\ lerr # "TypeError"
           /\ Descends(idealTree, PathNames(deepArgs[k]))
           /\ IsPatched(Descend(idealTree, PathNames(deepArgs[k])), deepArgs[k])

\* C2: when some segment of some deep path names a child that is absent, the
\* lockfile is never inflated.
C2_SkewIsFatal ==
    (hasShrinkwrap /\ \E j \in 1..Len(deepArgs) : ~Descends(tree0, PathNames(deepArgs[j])))
        => ~inflated

FirstSegmentAbsent(tree, arg) ==
    \A i \in 1..Len(tree.requires) : tree.requires[i].name # Npa(arg[1]).name

\* C8: the visit of a deep path whose first segment names no child of the
\* root leaves the whole tree as it was.
C8_FailureContainment ==
    (hasShrinkwrap /\ k >= 1 /\ FirstSegmentAbsent(prevTree, deepArgs[k]))
        => idealTree = prevTree

\* C8's case: with others configured, a path of several segments whose first
\* is absent was visited after the tree had been patched, and threw.
C8_Witness ==
    /\ hasShrinkwrap /\ k >= 2 /\ lerr = "TypeError"
    /\ Len(deepArgs[k]) >= 2
    /\ FirstSegmentAbsent(prevTree, deepArgs[k])
    /\ prevTree # tree0

IsPrefix(s, t) == Len(s) <= Len(t) /\ SubSeq(t, 1, Len(s)) = s

\* Neither path's names lead through the node of the other.
NonOverlapping(p, q) ==
    /\ ~IsPrefix(PathNames(p), PathNames(q))
    /\ ~IsPrefix(PathNames(q), PathNames(p))

TwoNonOverlapping ==
    /\ PatchingOver
    /\ Len(deepArgs) = 2
    /\ NonOverlapping(deepArgs[1], deepArgs[2])

Swapped == ApplyAll(tree0, <<deepArgs[2], deepArgs[1]>>)

----------------------------------------------------------------------------
(* Properties of auditCmd.                                                 *)

\* The fix branch has classified the report's actions.
Classified == IsFix /\ (pc \in {"installing", "done"} \/ err = "EINSTALL")

Reported == auditResult.actions

\* name is a whole segment of the ">"-separated string path, starting at
\* character p.
SegmentAt(path, p, name) ==
    /\ p = 1 \/ path[p - 1] = ">"
    /\ p + Len(name) - 1 <= Len(path)
    /\ SubSeq(path, p, p + Len(name) - 1) = name
    /\ p + Len(name) - 1 = Len(path) \/ path[p + Len(name)] = ">"

ContainsSegment(path, name) == \E p \in 1..Len(path) : SegmentAt(path, p, name)

FirstSegmentAt(path, name) ==
    CHOOSE p \in 1..Len(path) :
        SegmentAt(path, p, name) /\ \A q \in 1..(p-1) : ~SegmentAt(path, q, name)

\* The path up to the first segment that is name, then name@target.
ExpectedEntry(path, name, target) ==
    SubSeq(path, 1, FirstSegmentAt(path, name) - 1) \o name \o <<"@">> \o target

\* "a>b>c@2.0.0"
ExampleEntry == <<"a", ">", "b", ">", "c", "@", "2", ".", "0", ".", "0">>

\* C3: for a non-major update action, each vulnerability whose path contains
\* the module adds to update exactly the names before the module's first
\* occurrence followed by module@target, joined with ">", and nothing else;
\* path "a>b>c>d" with module c and target 2.0.0 gives "a>b>c@2.0.0".
C3_UpdateEntries ==
    Classified =>
        /\ \A i \in 1..Len(Reported) :
              LET a == Reported[i]
              IN  (~a.isMajor /\ a.action = "update") =>
                     \A j \in 1..Len(a.resolves) :
                        LET path == a.resolves[j].path
                        IN  ContainsSegment(path, a.module) =>
                               /\ ExpectedEntry(path, a.module, a.target) \in Range(actions.update)
                               /\ AddResolves(<<>>, a.module, a.target, <<a.resolves[j]>>)
                                     = <<ExpectedEntry(path, a.module, a.target)>>
        /\ Reported = ExampleActions => actions.update = <<ExampleEntry>>

\* C3's case: module a in path "c>a>b>a" was classified.
C3_Witness ==
    /\ Classified
    /\ \E i \in 1..Len(Reported) :
          /\ ~Reported[i].isMajor /\ Reported[i].action = "update"
          /\ Reported[i].module = A
          /\ Reported[i].resolves # <<>>
          /\ Reported[i].resolves[1].path = PathCABA
    /\ <<"c", ">", "a", "@", "2">> \in Range(actions.update)

ModuleAtTarget(a) == a.module \o <<"@">> \o a.target

\* The last ">"-separated segment of entry is spec.
EndsWith(entry, spec) ==
    \/ entry = spec
    /\ Len(entry) > Len(spec)
    /\ SubSeq(entry, Len(entry) - Len(spec), Len(entry)) = <<">">> \o spec

Buckets == {"install", "update", "major", "review"}

\* What the action at position i adds, to empty buckets.
Contribution(i) == ClassifyAction(EmptyPlan, Reported[i], i)

Touched(i) == {b \in Buckets : Contribution(i)[b] # <<>>}

\* Each bucket holds what the actions added to it, and nothing else.
PlanIsTheContributions ==
    \A b \in Buckets :
        Range(actions[b]) = UNION {Range(Contribution(i)[b]) : i \in 1..Len(Reported)}

\* C5 as stated: every action adds to exactly one bucket.
C5_ExactlyOneBucket ==
    Classified =>
        /\ PlanIsTheContributions
        /\ \A i \in 1..Len(Reported) : Cardinality(Touched(i)) = 1

\* C5 as amended: every action adds to exactly one bucket, except a non-major
\* update action with no vulnerability, which adds to none.
C5_AtMostOneBucket ==
    Classified =>
        /\ PlanIsTheContributions
        /\ \A i \in 1..Len(Reported) :
              IF /\ ~Reported[i].isMajor
                 /\ Reported[i].action = "update"
                 /\ Reported[i].resolves = <<>>
              THEN Touched(i) = {}
              ELSE Cardinality(Touched(i)) = 1

\* C5's case: a list with a major update action and a non-major update
\* action without vulnerabilities was classified.
C5_Witness ==
    /\ Classified
    /\ \E i, j \in 1..Len(Reported) :
          /\ Reported[i].isMajor /\ Reported[i].action = "update"
          /\ Reported[i].resolves # <<>>
          /\ ~Reported[j].isMajor /\ Reported[j].action = "update"
          /\ Reported[j].resolves = <<>>
    /\ actions.major # <<>>
    /\ actions.update = <<>>

\* d is the ">"-separated string u split into its segments.
IsSplitOf(d, u) ==
    /\ Join(d, ">") = u
    /\ Len(d) >= 1
    /\ \A n \in 1..Len(d) : ">" \notin Range(d[n])

DeepArgsAreTheUpdates(call) ==
    /\ Len(call.deepArgs) = Len(actions.update)
    /\ \A n \in 1..Len(actions.update) : IsSplitOf(call.deepArgs[n], actions.update[n])

LodashSpec == <<"l", "o", "d", "a", "s", "h", "@", "4", ".", "1", "7", ".", "2", "1">>

\* "app>lodash@4.17.21"
AppLodashSpec == <<"a", "p", "p", ">">> \o LodashSpec

Missing(f) == files[f] = "ENOENT"

Unreadable(f) == files[f] \in {"EJSONPARSE", "EACCES"}

NoLock == Missing("shrinkwrap") /\ Missing("lockfile")

ConfigError == global \/ Missing("pkgJson") \/ NoLock \/ verify = "mismatch"

Ended == pc \in {"done", "failed"}

NoPartialAction == ~generated /\ ~submitted /\ auditorCalls = <<>>

\* The codes of the configuration errors whose condition holds.
Corresponding ==
    {c \in {"EAUDITGLOBAL", "EAUDITNOPJSON", "EAUDITNOLOCK", "ELOCKVERIFY"} :
        \/ c = "EAUDITGLOBAL" /\ global
        \/ c = "EAUDITNOPJSON" /\ Missing("pkgJson")
        \/ c = "EAUDITNOLOCK" /\ NoLock
        \/ c = "ELOCKVERIFY" /\ verify = "mismatch"}

\* C10 as stated: a run with a configuration error ends with the
\* corresponding error, generates and submits no report and runs no Auditor.
C10_ConfigErrorsFatal ==
    ConfigError =>
        /\ NoPartialAction
        /\ Ended => (pc = "failed" /\ err \in Corresponding)

\* C10 as amended: such a run ends with an error, generates and submits no
\* report and runs no Auditor; the error is EAUDITGLOBAL in global mode,
\* else that of an invalid subcommand, else that of a file that cannot be
\* read, and only then EAUDITNOPJSON, EAUDITNOLOCK or ELOCKVERIFY, in this
\* order.
C10_ConfigErrorsFatalInOrder ==
    ConfigError =>
        /\ NoPartialAction
        /\ Ended =>
              /\ pc = "failed"
              /\ IF global THEN err = "EAUDITGLOBAL"
                 ELSE IF args # <<>> /\ args[1] # "fix" THEN err = "EINVALIDSUBCOMMAND"
                 ELSE IF \E f \in FileNames : Unreadable(f)
                 THEN \E f \in FileNames : Unreadable(f) /\ err = files[f]
                 ELSE IF Missing("pkgJson") THEN err = "EAUDITNOPJSON"
                 ELSE IF NoLock THEN err = "EAUDITNOLOCK"
                 ELSE err = "ELOCKVERIFY"

\* C10's case: a run without lockfile ended.
C10_Witness ==
    /\ ~global
    /\ NoLock
    /\ ~Missing("pkgJson")
    /\ pc = "failed"
    /\ err = "EAUDITNOLOCK"

====
